---- MODULE Spec2Model ----
(***************************************************************************)
(* Model of go-anki-deck: the Deck aggregate (in-memory SQLite store with  *)
(* the col / notes / cards tables, the media list, topDeckID/topModelID),  *)
(* the template bootstrap, the archive export and the AnkiConnect sync     *)
(* operations.                                                             *)
(*                                                                         *)
(* Text is modelled as a sequence of tokens (a token is one character or   *)
(* an opaque chunk of characters), so that concatenation, splitting and    *)
(* quoting are computed the way the code computes them.                    *)
(***************************************************************************)
EXTENDS Integers, Sequences, FiniteSets, TLC

(***************************************************************************)
(* Bounds                                                                  *)
(***************************************************************************)
ClockBase == 1700000000
MaxClock == 2
MaxNotes == 2
MaxMedia == 2
MaxStamp == 1

Clock == (ClockBase + 1)..(ClockBase + MaxClock)
Decks == {1, 2}
Names == {"Deck A"}

\* a nil *TemplateOptions / *CardOptions / *SyncOptions
NilTemplate ==
  [nil |-> TRUE, QuestionFormat |-> <<>>, AnswerFormat |-> <<>>, CSS |-> <<>>]
NilCard ==
  [nil |-> TRUE, Tags |-> <<>>, FrontAudio |-> "", BackAudio |-> "",
   FrontImage |-> "", BackImage |-> "", FrontVideo |-> "", BackVideo |-> ""]
NilSync == [nil |-> TRUE, UpdateExisting |-> FALSE, DeleteMissing |-> FALSE,
            SyncMedia |-> FALSE]

(***************************************************************************)
(* Text helpers                                                            *)
(***************************************************************************)
separator == <<"US">>

Digits == <<"0", "1", "2", "3", "4", "5", "6", "7", "8", "9">>

RECURSIVE Itoa(_)
Itoa(n) ==
  IF n < 10 THEN <<Digits[n + 1]>>
  ELSE Itoa(n \div 10) \o <<Digits[(n % 10) + 1]>>

Max(S) == CHOOSE x \in S : \A y \in S : y <= x

RECURSIVE Join(_, _)
Join(parts, sep) ==
  IF Len(parts) = 0 THEN <<>>
  ELSE IF Len(parts) = 1 THEN parts[1]
  ELSE parts[1] \o sep \o Join(Tail(parts), sep)

RECURSIVE ReplaceAll(_, _, _)
ReplaceAll(s, old, new) ==
  IF Len(s) = 0 THEN <<>>
  ELSE <<IF s[1] = old THEN new ELSE s[1]>> \o ReplaceAll(Tail(s), old, new)

RECURSIVE Split(_, _)
Split(s, sep) ==
  IF \E i \in 1..Len(s) : s[i] = sep
  THEN LET i == CHOOSE k \in 1..Len(s) :
                   s[k] = sep /\ \A j \in 1..(k - 1) : s[j] # sep
       IN <<SubSeq(s, 1, i - 1)>> \o Split(SubSeq(s, i + 1, Len(s)), sep)
  ELSE <<s>>

Sha1Hex(data) == <<"sha1:">> \o data

(***************************************************************************)
(* State                                                                   *)
(***************************************************************************)
VARIABLES clock, alive, name, topDeckID, topModelID, media, notes, cards,
          colDecks, colModels, remote, files, last, saving

vars == <<clock, alive, name, topDeckID, topModelID, media, notes, cards,
          colDecks, colModels, remote, files, last, saving>>

deckVars == <<alive, name, topDeckID, topModelID, colDecks, colModels>>

NoResult ==
  [op |-> "none", deck |-> 0, err |-> "", again |-> FALSE, fault |-> "none",
   nid |-> 0, filename |-> "", data |-> "", card |-> NilCard,
   front |-> <<>>, back |-> <<>>, tags |-> <<>>,
   given |-> NilTemplate, opts |-> NilTemplate,
   zip |-> <<>>, tmp |-> 0, created |-> FALSE,
   calls |-> <<>>, sync |-> NilSync]

(***************************************************************************)
(* Template bootstrap (createTemplate) and its execution by SQLite         *)
(***************************************************************************)
\* TLC integers have 32 bits: the millisecond stamps 1388596687391 and
\* 1435588830424 of the seed, like the clock readings, are written without
\* their last three digits.
SeedModelID == 1388596687
SeedDeckID == 1435588830
DefaultDeckID == 1

DefaultQuestionFormat == <<"{{Front}}">>
DefaultAnswerFormat ==
  <<"{{FrontSide}}\n\n<hr id=", "\"", "answer", "\"", ">\n\n{{Back}}">>
DefaultCSS == <<".card {...}">>

\* encoding/json string escaping, of the characters the model distinguishes
RECURSIVE JSONEscape(_)
JSONEscape(s) ==
  IF Len(s) = 0 THEN <<>>
  ELSE (IF s[1] \in {"\"", "\\"} THEN <<"\\", s[1]>> ELSE <<s[1]>>)
       \o JSONEscape(Tail(s))

RECURSIVE JSONUnescape(_)
JSONUnescape(s) ==
  IF Len(s) = 0 THEN <<>>
  ELSE IF s[1] = "\\" /\ Len(s) >= 2
       THEN <<s[2]>> \o JSONUnescape(SubSeq(s, 3, Len(s)))
       ELSE <<s[1]>> \o JSONUnescape(Tail(s))

\* SQLite reading the inside of a '...' literal whose closing quote is
\* further on: '' is one quote character, a single ' ends the literal early
\* and leaves the rest of the blob as a syntax error.
RECURSIVE SQLLiteral(_)
SQLLiteral(s) ==
  IF Len(s) = 0 THEN [ok |-> TRUE, val |-> <<>>]
  ELSE IF s[1] = "'"
       THEN IF Len(s) >= 2 /\ s[2] = "'"
            THEN LET r == SQLLiteral(SubSeq(s, 3, Len(s)))
                 IN [ok |-> r.ok, val |-> <<"'">> \o r.val]
            ELSE [ok |-> FALSE, val |-> <<>>]
       ELSE LET r == SQLLiteral(Tail(s))
            IN [ok |-> r.ok, val |-> <<s[1]>> \o r.val]

\* the caller's TemplateOptions after the defaults were written into it
TemplateDefaults(opts) ==
  [nil            |-> FALSE,
   QuestionFormat |-> IF opts.QuestionFormat = <<>>
                      THEN DefaultQuestionFormat ELSE opts.QuestionFormat,
   AnswerFormat   |-> IF opts.AnswerFormat = <<>>
                      THEN DefaultAnswerFormat ELSE opts.AnswerFormat,
   CSS            |-> IF opts.CSS = <<>> THEN DefaultCSS ELSE opts.CSS]

SeedDecks ==
  (Itoa(DefaultDeckID) :>
     [name |-> "Default", id |-> DefaultDeckID, usn |-> 0, mod |-> 1435645724])
  @@
  (Itoa(SeedDeckID) :>
     [name |-> "Template", id |-> SeedDeckID, usn |-> -1, mod |-> 1435588830])

\* the script: the JSON text of the blobs, inlined between single quotes
createTemplate(opts) ==
  LET o == TemplateDefaults(opts)
  IN [opts   |-> IF opts.nil THEN NilTemplate ELSE o,
      qfmt   |-> JSONEscape(o.QuestionFormat),
      afmt   |-> JSONEscape(o.AnswerFormat),
      css    |-> JSONEscape(o.CSS),
      decks  |-> SeedDecks]

\* d.db.Exec(template): the col row as SQLite stores it
ExecTemplate(script) ==
  LET q == SQLLiteral(script.qfmt)
      a == SQLLiteral(script.afmt)
      c == SQLLiteral(script.css)
  IN [ok     |-> q.ok /\ a.ok /\ c.ok,
      decks  |-> script.decks,
      models |-> Itoa(SeedModelID) :>
                   [name |-> "Basic-f15d2", did |-> SeedDeckID,
                    id |-> SeedModelID,
                    qfmt |-> JSONUnescape(q.val),
                    afmt |-> JSONUnescape(a.val),
                    css  |-> JSONUnescape(c.val)]]

(***************************************************************************)
(* Identity assignment                                                     *)
(***************************************************************************)
\* getID that always steps past the stamp
GetID_Mutant(column, ts) ==
  IF \E v \in column : v >= ts THEN Max(column) + 1 ELSE ts + 1

\* the stamp taken as the id without probing the table
GetID_MutantStamp(column, ts) == ts

\* SELECT col FROM table WHERE col >= ts ORDER BY col DESC LIMIT 1
GetID(column, ts) ==
  IF \E v \in column : v >= ts THEN Max(column) + 1 ELSE ts

\* lastKey is the key the map iteration happened to visit last
updateDeckName(decks, lastKey, deckName, deckID) ==
  IF lastKey # Itoa(DefaultDeckID)
  THEN LET newKey == Itoa(deckID)
           deck == [decks[lastKey] EXCEPT !.name = deckName, !.id = deckID]
       IN [k \in (DOMAIN decks \ {lastKey}) \cup {newKey} |->
             IF k = newKey THEN deck ELSE decks[k]]
  ELSE decks

\* the model renamed in place under its seed key, its did left as seeded
updateModel_Mutant(models, lastKey, deckName, deckID, modelID) ==
  [models EXCEPT ![lastKey] = [@ EXCEPT !.name = deckName, !.id = modelID]]

updateModel(models, lastKey, deckName, deckID, modelID) ==
  LET newKey == Itoa(modelID)
      model == [models[lastKey] EXCEPT !.name = deckName, !.did = deckID,
                                       !.id = modelID]
  IN [k \in (DOMAIN models \ {lastKey}) \cup {newKey} |->
        IF k = newKey THEN model ELSE models[k]]

NewDeckWithTemplate(d, deckName, templateOpts) ==
  /\ ~alive[d]
  /\ LET script == createTemplate(templateOpts)
         col == ExecTemplate(script)
         now == clock
         deckID == GetID({c.did : c \in cards[d]}, now)
         modelID == GetID({n.mid : n \in notes[d]}, now)
     IN IF ~col.ok
        THEN /\ last' = [NoResult EXCEPT !.op = "NewDeck", !.deck = d,
                           !.err = "failed to initialize database",
                           !.given = templateOpts, !.opts = script.opts]
             /\ UNCHANGED deckVars
        ELSE \E dk \in DOMAIN col.decks, mk \in DOMAIN col.models :
               /\ alive' = [alive EXCEPT ![d] = TRUE]
               /\ name' = [name EXCEPT ![d] = deckName]
               /\ topDeckID' = [topDeckID EXCEPT ![d] = deckID]
               /\ topModelID' = [topModelID EXCEPT ![d] = modelID]
               /\ colDecks' = [colDecks EXCEPT
                    ![d] = updateDeckName(col.decks, dk, deckName, deckID)]
               /\ colModels' = [colModels EXCEPT
                    ![d] = updateModel(col.models, mk, deckName, deckID,
                                       modelID)]
               /\ last' = [NoResult EXCEPT !.op = "NewDeck", !.deck = d,
                             !.given = templateOpts, !.opts = script.opts]
  /\ UNCHANGED saving
  /\ UNCHANGED <<clock, media, notes, cards, remote, files>>

\* time.Now() is the wall clock: it may stand still, advance or be set back
Tick ==
  /\ \E t \in Clock \ {clock} : clock' = t
  /\ UNCHANGED saving
  /\ UNCHANGED <<alive, name, topDeckID, topModelID, media, notes, cards,
                 colDecks, colModels, remote, files, last>>

(***************************************************************************)
(* Card / note insertion                                                   *)
(***************************************************************************)
getNoteGUID(deckID, front, back) == Sha1Hex(Itoa(deckID) \o front \o back)

\* getNoteID without the lookup by guid
getNoteID_Mutant(notesTable, guid, ts) == GetID({n.id : n \in notesTable}, ts)

getNoteID(notesTable, guid, ts) ==
  LET ids == {n.id : n \in {m \in notesTable : m.guid = guid}}
  IN IF ids = {} THEN GetID({n.id : n \in notesTable}, ts) ELSE Max(ids)

\* getCardID without the lookup by nid
getCardID_Mutant(cardsTable, noteID, ts) ==
  GetID({c.id : c \in cardsTable}, ts)

getCardID(cardsTable, noteID, ts) ==
  LET ids == {c.id : c \in {k \in cardsTable : k.nid = noteID}}
  IN IF ids = {} THEN GetID({c.id : c \in cardsTable}, ts) ELSE Max(ids)

\* INSERT OR REPLACE: id is the only key of either table
Upsert(table, row) == {r \in table : r.id # row.id} \cup {row}

TagsString(opts) ==
  IF ~opts.nil /\ Len(opts.Tags) > 0
  THEN <<" ">>
       \o Join([i \in 1..Len(opts.Tags) |-> ReplaceAll(opts.Tags[i], " ", "_")],
               <<" ">>)
       \o <<" ">>
  ELSE <<>>

\* the inline markup of a media cross-reference
AudioMarkup(f) == IF f = "" THEN <<>> ELSE <<"[sound:", f, "]">>
ImageMarkup(f) == IF f = "" THEN <<>> ELSE <<"<img src=\"", f, "\">">>
VideoMarkup(f) ==
  IF f = "" THEN <<>>
  ELSE <<"<video controls><source src=\"", f, "\"></video>">>

\* front and back with the markup of the options' cross-references appended
frontWithMedia(front, opts) ==
  IF opts.nil THEN front
  ELSE front \o AudioMarkup(opts.FrontAudio) \o ImageMarkup(opts.FrontImage)
             \o VideoMarkup(opts.FrontVideo)

backWithMedia(back, opts) ==
  IF opts.nil THEN back
  ELSE back \o AudioMarkup(opts.BackAudio) \o ImageMarkup(opts.BackImage)
            \o VideoMarkup(opts.BackVideo)

\* the two fields stored back first
NoteRow_Mutant(notesTable, deckID, modelID, front, back, opts, now) ==
  LET noteGUID == getNoteGUID(deckID, front, back)
  IN [id    |-> getNoteID(notesTable, noteGUID, now),
      guid  |-> noteGUID,
      mid   |-> modelID,
      mod   |-> GetID({n.mod : n \in notesTable}, now),
      usn   |-> -1,
      tags  |-> TagsString(opts),
      flds  |-> back \o separator \o front,
      sfld  |-> front,
      flags |-> 0,
      data  |-> <<>>]

\* the tags hashed into the guid
NoteRow_MutantGuid(notesTable, deckID, modelID, front, back, opts, now) ==
  LET noteGUID == getNoteGUID(deckID, front, back \o TagsString(opts))
  IN [id    |-> getNoteID(notesTable, noteGUID, now),
      guid  |-> noteGUID,
      mid   |-> modelID,
      mod   |-> GetID({n.mod : n \in notesTable}, now),
      usn   |-> -1,
      tags  |-> TagsString(opts),
      flds  |-> front \o separator \o back,
      sfld  |-> front,
      flags |-> 0,
      data  |-> <<>>]

\* a call without tags keeps the tags the stored note has
NoteRow_MutantTags(notesTable, deckID, modelID, front, back, opts, now) ==
  LET noteGUID == getNoteGUID(deckID, front, back)
      old == {n \in notesTable : n.guid = noteGUID}
  IN [id    |-> getNoteID(notesTable, noteGUID, now),
      guid  |-> noteGUID,
      mid   |-> modelID,
      mod   |-> GetID({n.mod : n \in notesTable}, now),
      usn   |-> -1,
      tags  |-> IF TagsString(opts) = <<>> /\ old # {}
                THEN (CHOOSE n \in old : TRUE).tags ELSE TagsString(opts),
      flds  |-> front \o separator \o back,
      sfld  |-> front,
      flags |-> 0,
      data  |-> <<>>]

\* the note row (csum, a digest of flds that nothing reads back, is left out)
NoteRow(notesTable, deckID, modelID, front, back, opts, now) ==
  LET noteGUID == getNoteGUID(deckID, front, back)
  IN [id    |-> getNoteID(notesTable, noteGUID, now),
      guid  |-> noteGUID,
      mid   |-> modelID,
      mod   |-> GetID({n.mod : n \in notesTable}, now),
      usn   |-> -1,
      tags  |-> TagsString(opts),
      flds  |-> front \o separator \o back,
      sfld  |-> front,
      flags |-> 0,
      data  |-> <<>>]

\* the card filed under the "Default" deck
CardRow_Mutant(cardsTable, deckID, noteID, now) ==
  [id    |-> getCardID(cardsTable, noteID, now),
   nid   |-> noteID,
   did   |-> DefaultDeckID,
   ord   |-> 0,
   mod   |-> GetID({c.mod : c \in cardsTable}, now),
   usn   |-> -1,
   type  |-> 0,
   queue |-> 0,
   due   |-> 179,
   data  |-> <<>>]

\* the card row (ivl, factor, reps, lapses, left, odue, odid, flags are 0)
CardRow(cardsTable, deckID, noteID, now) ==
  [id    |-> getCardID(cardsTable, noteID, now),
   nid   |-> noteID,
   did   |-> deckID,
   ord   |-> 0,
   mod   |-> GetID({c.mod : c \in cardsTable}, now),
   usn   |-> -1,
   type  |-> 0,
   queue |-> 0,
   due   |-> 179,
   data  |-> <<>>]

StampLimit == ClockBase + MaxClock + MaxStamp

\* which of the two statements of AddCardWithOptions the store rejects
CardFaults == {"none", "note", "card"}

\* both statements inside one transaction that a failure rolls back
AddCardExec_Mutant(notesTable, cardsTable, note, card, fault) ==
  IF fault = "note"
  THEN [notes |-> notesTable, cards |-> cardsTable,
        err |-> "failed to insert note"]
  ELSE IF fault = "card"
  THEN [notes |-> notesTable, cards |-> cardsTable,
        err |-> "failed to insert card"]
  ELSE [notes |-> Upsert(notesTable, note), cards |-> Upsert(cardsTable, card),
        err |-> ""]

\* the two d.db.Exec calls and the early return between them
AddCardExec(notesTable, cardsTable, note, card, fault) ==
  IF fault = "note"
  THEN [notes |-> notesTable, cards |-> cardsTable,
        err |-> "failed to insert note"]
  ELSE IF fault = "card"
  THEN [notes |-> Upsert(notesTable, note), cards |-> cardsTable,
        err |-> "failed to insert card"]
  ELSE [notes |-> Upsert(notesTable, note), cards |-> Upsert(cardsTable, card),
        err |-> ""]

AddCardWithOptions(d, front, back, opts, fault) ==
  /\ alive[d]
  /\ LET note == NoteRow(notes[d], topDeckID[d], topModelID[d],
                         frontWithMedia(front, opts),
                         backWithMedia(back, opts), opts, clock)
         card == CardRow(cards[d], topDeckID[d], note.id, clock)
         res == AddCardExec(notes[d], cards[d], note, card, fault)
     IN /\ Cardinality(res.notes) <= MaxNotes
        /\ note.mod <= StampLimit
        /\ card.mod <= StampLimit
        /\ notes' = [notes EXCEPT ![d] = res.notes]
        /\ cards' = [cards EXCEPT ![d] = res.cards]
        /\ last' = [NoResult EXCEPT
             !.op = "AddCard", !.deck = d, !.front = front, !.back = back,
             !.tags = opts.Tags, !.fault = fault, !.err = res.err,
             !.nid = note.id, !.card = opts,
             !.again = /\ last.op = "AddCard" /\ last.deck = d
                       /\ last.err = ""
                       /\ last.front = front /\ last.back = back]
  /\ UNCHANGED saving
  /\ UNCHANGED <<clock, alive, name, topDeckID, topModelID, media, colDecks,
                 colModels, remote, files>>

(***************************************************************************)
(* Media registry                                                          *)
(***************************************************************************)
\* a registry keyed by filename: a second payload replaces the first
appendMedia_Mutant(m, filename, data) ==
  IF \E i \in 1..Len(m) : m[i].Filename = filename
  THEN [i \in 1..Len(m) |-> IF m[i].Filename = filename
                            THEN [Filename |-> filename, Data |-> data]
                            ELSE m[i]]
  ELSE Append(m, [Filename |-> filename, Data |-> data])

\* d.media = append(d.media, Media{Filename: filename, Data: data})
appendMedia(m, filename, data) ==
  Append(m, [Filename |-> filename, Data |-> data])

AddMedia(d, filename, data) ==
  /\ alive[d]
  /\ Len(media[d]) < MaxMedia
  /\ media' = [media EXCEPT ![d] = appendMedia(media[d], filename, data)]
  /\ last' = [NoResult EXCEPT !.op = "AddMedia", !.deck = d,
                              !.filename = filename, !.data = data]
  /\ UNCHANGED saving
  /\ UNCHANGED <<clock, alive, name, topDeckID, topModelID, notes, cards,
                 colDecks, colModels, remote, files>>

(***************************************************************************)
(* Archive export                                                          *)
(***************************************************************************)
Tables == <<"col", "notes", "cards", "revlog", "graves">>

NoData == [col |-> {}, notes |-> {}, cards |-> {}, revlog |-> {},
           graves |-> {}]

TmpFile(t) == <<"anki_">> \o Itoa(t) \o <<".db">>

\* the rows of one table of the in-memory store
TableRows(d, table) ==
  CASE table = "col"   -> {[id |-> 1, decks |-> colDecks[d],
                            models |-> colModels[d]]}
    [] table = "notes" -> notes[d]
    [] table = "cards" -> cards[d]
    [] OTHER           -> {}

TableSet == {Tables[i] : i \in 1..Len(Tables)}

\* the table whose CREATE statement, respectively whose row copy, fails
DDLFaults == {"ddl " \o t : t \in TableSet}
CopyFaults == {"copy " \o t : t \in TableSet}

\* the tables the replayed schema created in the file database
Replayed(fault) == {t \in TableSet : fault # "ddl " \o t}

\* copyTableData into the file database: nothing arrives in a table whose
\* copy fails at its first row
Copied(d, table, fault) ==
  IF fault = "copy " \o table THEN {} ELSE TableRows(d, table)

\* a failed table copy returned to the caller instead of skipped
ExportBody_Mutant(d, tmpFile, fault, fs) ==
  IF fault = "schema"
  THEN [err |-> "failed to query schema", data |-> NoData, files |-> fs,
        created |-> FALSE]
  ELSE LET fs1 == fs \cup {tmpFile}
       IN IF fault = "read"
          THEN [err |-> "failed to read temp database", data |-> NoData,
                files |-> fs1, created |-> TRUE]
          ELSE IF fault \in CopyFaults
          THEN [err |-> "failed to copy table", data |-> NoData,
                files |-> fs1, created |-> TRUE]
          ELSE [err |-> "",
                data |-> [t \in Replayed(fault) |-> Copied(d, t, fault)],
                files |-> fs1, created |-> TRUE]

\* the body of exportDatabase up to its return statement
ExportBody(d, tmpFile, fault, fs) ==
  IF fault = "schema"
  THEN [err |-> "failed to query schema", data |-> NoData, files |-> fs,
        created |-> FALSE]
  ELSE LET fs1 == fs \cup {tmpFile}
       IN IF fault = "read"
          THEN [err |-> "failed to read temp database", data |-> NoData,
                files |-> fs1, created |-> TRUE]
          ELSE [err |-> "",
                data |-> [t \in Replayed(fault) |-> Copied(d, t, fault)],
                files |-> fs1, created |-> TRUE]

\* os.Remove(tmpFile) as the last statement instead of deferred
exportDatabase_Mutant(d, tmpFile, fault, fs) ==
  LET r == ExportBody(d, tmpFile, fault, fs)
  IN IF r.err = "" THEN [r EXCEPT !.files = r.files \ {tmpFile}] ELSE r

\* defer os.Remove(tmpFile) runs on every return
exportDatabase(d, tmpFile, fault, fs) ==
  LET r == ExportBody(d, tmpFile, fault, fs)
  IN [r EXCEPT !.files = r.files \ {tmpFile}]

RECURSIVE MediaMap(_, _)
MediaMap(m, n) ==
  IF n = 0 THEN <<>>
  ELSE LET prior == MediaMap(m, n - 1)
           key == Itoa(n - 1)
       IN [k \in DOMAIN prior \cup {key} |->
             IF k = key THEN m[n].Filename ELSE prior[k]]

\* media entries numbered from 1
ZipEntries_Mutant(dbData, m) ==
  <<[name |-> <<"collection.anki2">>, body |-> dbData],
    [name |-> <<"media">>, body |-> MediaMap(m, Len(m))]>>
  \o [i \in 1..Len(m) |-> [name |-> Itoa(i), body |-> m[i].Data]]

ZipEntries(dbData, m) ==
  <<[name |-> <<"collection.anki2">>, body |-> dbData],
    [name |-> <<"media">>, body |-> MediaMap(m, Len(m))]>>
  \o [i \in 1..Len(m) |-> [name |-> Itoa(i - 1), body |-> m[i].Data]]

SaveFaults == {"none", "schema", "read", "zip"} \cup DDLFaults \cup CopyFaults

\* the media list handed over to the archive and emptied
Save_Mutant(d, fault) ==
  /\ alive[d]
  /\ \E exp \in {exportDatabase(d, TmpFile(clock), fault, files)} :
     LET res == [NoResult EXCEPT !.op = "Save", !.deck = d, !.tmp = clock,
                                 !.created = exp.created, !.fault = fault,
                                 !.again = /\ last.op = "Save" /\ last.deck = d
                                           /\ last.err = ""]
     IN /\ files' = exp.files
        /\ last' =
             IF exp.err # ""
             THEN [res EXCEPT !.err = "failed to export database"]
             ELSE IF fault = "zip"
             THEN [res EXCEPT !.err = "failed to write zip entry"]
             ELSE [res EXCEPT !.zip = ZipEntries(exp.data, media[d])]
  /\ media' = [media EXCEPT ![d] = <<>>]
  /\ UNCHANGED saving
  /\ UNCHANGED <<clock, alive, name, topDeckID, topModelID, notes,
                 cards, colDecks, colModels, remote>>

Save(d, fault) ==
  /\ alive[d]
  /\ \E exp \in {exportDatabase(d, TmpFile(clock), fault, files)} :
     LET res == [NoResult EXCEPT !.op = "Save", !.deck = d, !.tmp = clock,
                                 !.created = exp.created, !.fault = fault,
                                 !.again = /\ last.op = "Save" /\ last.deck = d
                                           /\ last.err = ""]
     IN /\ files' = exp.files
        /\ last' =
             IF exp.err # ""
             THEN [res EXCEPT !.err = "failed to export database"]
             ELSE IF fault = "zip"
             THEN [res EXCEPT !.err = "failed to write zip entry"]
             ELSE [res EXCEPT !.zip = ZipEntries(exp.data, media[d])]
  /\ UNCHANGED saving
  /\ UNCHANGED <<clock, alive, name, topDeckID, topModelID, media, notes,
                 cards, colDecks, colModels, remote>>

\* an export in progress: where the call stands, the clock reading its
\* temporary file is named after, and the rows it copied into that file
Idle == [pc |-> "idle", tmp |-> 0, data |-> NoData]

\* exportDatabase as far as the table copies: the path is named after the
\* clock reading, the schema replay creates the file, the copies fill it
SaveOpen(d) ==
  /\ alive[d]
  /\ saving[d].pc = "idle"
  /\ saving' = [saving EXCEPT ![d] =
                  [pc |-> "copied", tmp |-> clock,
                   data |-> [t \in TableSet |-> TableRows(d, t)]]]
  /\ files' = files \cup {TmpFile(clock)}
  /\ UNCHANGED <<clock, alive, name, topDeckID, topModelID, media, notes,
                 cards, colDecks, colModels, remote, last>>

\* the rest of the call: os.ReadFile on the path, the deferred os.Remove,
\* and the archive Save() builds; a path that another export in progress
\* also writes may hold either call's rows
SaveFinish(d) ==
  /\ saving[d].pc = "copied"
  /\ LET tmpFile == TmpFile(saving[d].tmp)
         res == [NoResult EXCEPT !.op = "Save", !.deck = d,
                                 !.tmp = saving[d].tmp, !.created = TRUE,
                                 !.fault = "none"]
     IN /\ files' = files \ {tmpFile}
        /\ IF tmpFile \notin files
           THEN last' = [res EXCEPT !.err = "failed to export database"]
           ELSE \E e \in Decks :
                  /\ saving[e].pc = "copied"
                  /\ saving[e].tmp = saving[d].tmp
                  /\ last' = [res EXCEPT
                                !.zip = ZipEntries(saving[e].data, media[d])]
  /\ saving' = [saving EXCEPT ![d] = Idle]
  /\ UNCHANGED <<clock, alive, name, topDeckID, topModelID, media, notes,
                 cards, colDecks, colModels, remote>>

(***************************************************************************)
(* AnkiConnect client                                                      *)
(***************************************************************************)
MaxFaults == 1

errDeckExists == "deck already exists"
errDuplicate == "cannot create note because it is a duplicate"
RemoteErrors == {errDeckExists, errDuplicate, "collection is not available"}

\* what the peer answers to one request: the error field of the response,
\* whether the exchange broke (transport or decoding), and whether the result
\* field has the type the caller expects
ReplyOK == [transport |-> FALSE, error |-> "", typed |-> TRUE]
FaultReplies ==
  {[transport |-> TRUE, error |-> "", typed |-> TRUE],
   [transport |-> FALSE, error |-> "", typed |-> FALSE]}
  \cup {[transport |-> FALSE, error |-> e, typed |-> TRUE] : e \in RemoteErrors}

\* the remote message dropped from the error text
invoke_Mutant(reply) ==
  IF reply.transport THEN "failed to connect to AnkiConnect: EOF"
  ELSE IF reply.error # "" THEN "AnkiConnect error"
  ELSE ""

\* the error invoke returns ("" is nil)
invoke(reply) ==
  IF reply.transport THEN "failed to connect to AnkiConnect: EOF"
  ELSE IF reply.error # "" THEN "AnkiConnect error: " \o reply.error
  ELSE ""

\* AddNote, FindNotes, GetNotesInfo: invoke, then the type assertion on result
invokeTyped(reply, what) ==
  IF invoke(reply) # "" THEN invoke(reply)
  ELSE IF ~reply.typed THEN "unexpected " \o what
  ELSE ""

Request(action) ==
  [action |-> action, deck |-> "", front |-> <<>>, back |-> <<>>,
   tags |-> <<>>, id |-> 0, filename |-> "", reply |-> ReplyOK]

\* one exchange: the request is logged with the reply the plan holds for it
\* (a plain success once the plan is used up)
Do(sess, plan, req) ==
  LET k == Len(sess.calls) + 1
  IN [sess EXCEPT !.calls =
        Append(@, [req EXCEPT !.reply = IF k \in DOMAIN plan THEN plan[k]
                                        ELSE ReplyOK])]

LastReply(sess) == sess.calls[Len(sess.calls)].reply

\* plans of n replies of which at most k are not plain successes
RECURSIVE Plans(_, _)
Plans(n, k) ==
  IF k = 0 THEN {[i \in 1..n |-> ReplyOK]}
  ELSE Plans(n, k - 1)
       \cup {[p EXCEPT ![i] = f] :
               p \in Plans(n, k - 1), i \in 1..n, f \in FaultReplies}

\* strings.Fields on the stored tag string
RECURSIVE Fields(_)
Fields(s) ==
  IF Len(s) = 0 THEN <<>>
  ELSE IF s[1] = " " THEN Fields(Tail(s))
  ELSE LET parts == Split(s, " ")
       IN <<parts[1]>> \o Fields(SubSeq(s, Len(parts[1]) + 1, Len(s)))

\* SELECT n.flds, n.tags FROM notes n JOIN cards c ON c.nid = n.id
\*   WHERE c.did = ?
JoinRows(d) ==
  {[flds |-> p[1].flds, tags |-> p[1].tags, cid |-> p[2].id] :
     p \in {q \in notes[d] \X cards[d] :
              q[2].nid = q[1].id /\ q[2].did = topDeckID[d]}}

\* the orders in which a query may deliver a set of rows
Orders(S) ==
  {seq \in [1..Cardinality(S) -> S] :
     \A i, j \in 1..Cardinality(S) : i # j => seq[i] # seq[j]}

\* the peer's collection after it accepted a note
RemoteAdd(rem, deckName, front, back, tags) ==
  rem \cup {[noteId |-> IF rem = {} THEN 1
                        ELSE Max({r.noteId : r \in rem}) + 1,
             deckName |-> deckName, front |-> front, back |-> back,
             tags |-> tags]}

\* storing the media list, failures only logged
RECURSIVE StoreMedia(_, _, _, _)
StoreMedia(sess, plan, m, i) ==
  IF i > Len(m) THEN sess
  ELSE StoreMedia(Do(sess, plan,
                     [Request("storeMediaFile") EXCEPT
                        !.filename = m[i].Filename]),
                  plan, m, i + 1)

AddNoteRequest(deckName, fields, row) ==
  [Request("addNote") EXCEPT
     !.deck = deckName, !.front = fields[1], !.back = fields[2],
     !.tags = IF row.tags # <<>> THEN Fields(row.tags) ELSE <<>>]

\* one addNote exchange and its effect on the peer
AddNote(sess, plan, deckName, fields, row) ==
  LET req == AddNoteRequest(deckName, fields, row)
      s1 == Do(sess, plan, req)
  IN IF LastReply(s1) = ReplyOK
     THEN [s1 EXCEPT !.remote =
             RemoteAdd(@, deckName, req.front, req.back, req.tags)]
     ELSE s1

\* the loop "for rows.Next()" of PushToAnkiWithMedia
RECURSIVE PushRows(_, _, _, _, _)
PushRows(sess, plan, deckName, rows, i) ==
  IF i > Len(rows) THEN sess
  ELSE LET fields == Split(rows[i].flds, separator[1])
       IN IF Len(fields) < 2 THEN PushRows(sess, plan, deckName, rows, i + 1)
          ELSE LET s1 == AddNote(sess, plan, deckName, fields, rows[i])
                   err == invokeTyped(LastReply(s1), "note ID type")
               IN IF err # "" /\ err # "AnkiConnect error: " \o errDuplicate
                  THEN [s1 EXCEPT !.err = "failed to add card: " \o err]
                  ELSE PushRows(s1, plan, deckName, rows, i + 1)

\* the session a new operation starts with
Session(rem) == [calls |-> <<>>, remote |-> rem, err |-> ""]

\* the media list stored whatever syncMedia says
PushToAnkiWithMediaRun_MutantMedia(sess, plan, deckName, m, rows, syncMedia) ==
  LET s1 == Do(sess, plan, Request("version"))
  IN IF invoke(LastReply(s1)) # ""
     THEN [s1 EXCEPT !.err = "failed to connect to AnkiConnect: "
                             \o invoke(LastReply(s1))]
     ELSE
       LET s2 == Do(s1, plan, [Request("createDeck") EXCEPT !.deck = deckName])
           e2 == invoke(LastReply(s2))
       IN IF e2 # "" /\ e2 # "AnkiConnect error: " \o errDeckExists
          THEN [s2 EXCEPT !.err = "failed to create deck: " \o e2]
          ELSE PushRows(IF Len(m) > 0 THEN StoreMedia(s2, plan, m, 1) ELSE s2,
                        plan, deckName, rows, 1)

\* every createDeck error ignored
PushToAnkiWithMediaRun_MutantCreate(sess, plan, deckName, m, rows, syncMedia) ==
  LET s1 == Do(sess, plan, Request("version"))
  IN IF invoke(LastReply(s1)) # ""
     THEN [s1 EXCEPT !.err = "failed to connect to AnkiConnect: "
                             \o invoke(LastReply(s1))]
     ELSE
       LET s2 == Do(s1, plan, [Request("createDeck") EXCEPT !.deck = deckName])
           s3 == IF syncMedia /\ Len(m) > 0
                 THEN StoreMedia(s2, plan, m, 1) ELSE s2
       IN PushRows(s3, plan, deckName, rows, 1)

\* the answer to "version" not looked at
PushToAnkiWithMediaRun_MutantPing(sess, plan, deckName, m, rows, syncMedia) ==
  LET s1 == Do(sess, plan, Request("version"))
  IN IF FALSE
     THEN [s1 EXCEPT !.err = "failed to connect to AnkiConnect: "
                             \o invoke(LastReply(s1))]
     ELSE
       LET s2 == Do(s1, plan, [Request("createDeck") EXCEPT !.deck = deckName])
           e2 == invoke(LastReply(s2))
       IN IF e2 # "" /\ e2 # "AnkiConnect error: " \o errDeckExists
          THEN [s2 EXCEPT !.err = "failed to create deck: " \o e2]
          ELSE
            LET s3 == IF syncMedia /\ Len(m) > 0
                      THEN StoreMedia(s2, plan, m, 1) ELSE s2
            IN PushRows(s3, plan, deckName, rows, 1)

PushToAnkiWithMediaRun(sess, plan, deckName, m, rows, syncMedia) ==
  LET s1 == Do(sess, plan, Request("version"))
  IN IF invoke(LastReply(s1)) # ""
     THEN [s1 EXCEPT !.err = "failed to connect to AnkiConnect: "
                             \o invoke(LastReply(s1))]
     ELSE
       LET s2 == Do(s1, plan, [Request("createDeck") EXCEPT !.deck = deckName])
           e2 == invoke(LastReply(s2))
       IN IF e2 # "" /\ e2 # "AnkiConnect error: " \o errDeckExists
          THEN [s2 EXCEPT !.err = "failed to create deck: " \o e2]
          ELSE
            LET s3 == IF syncMedia /\ Len(m) > 0
                      THEN StoreMedia(s2, plan, m, 1) ELSE s2
            IN PushRows(s3, plan, deckName, rows, 1)

MaxRemote == 2

RemoteDeck(rem, deckName) == {r \in rem : r.deckName = deckName}

SyncResult(op, d, sess, opts) ==
  [NoResult EXCEPT !.op = op, !.deck = d, !.err = sess.err,
                   !.calls = sess.calls, !.sync = opts]

PushToAnkiWithMedia(d, syncMedia) ==
  /\ alive[d]
  /\ \E rows \in Orders(JoinRows(d)) :
       \E plan \in Plans(2 + (IF syncMedia THEN Len(media[d]) ELSE 0)
                            + Len(rows), MaxFaults) :
         \E sess \in {PushToAnkiWithMediaRun(Session(remote), plan, name[d],
                                               media[d], rows, syncMedia)} :
            /\ Cardinality(sess.remote) <= MaxRemote
            /\ remote' = sess.remote
            /\ last' = SyncResult("PushToAnki", d, sess,
                                  [NilSync EXCEPT !.SyncMedia = syncMedia])
  /\ UNCHANGED saving
  /\ UNCHANGED <<clock, alive, name, topDeckID, topModelID, media, notes,
                 cards, colDecks, colModels, files>>

ExistingKey(front, back) == front \o <<"|">> \o back

\* existingMap, filled in the order the peer listed the notes
RECURSIVE ExistingMap(_, _)
ExistingMap(infos, n) ==
  IF n = 0 THEN <<>>
  ELSE LET prior == ExistingMap(infos, n - 1)
           key == ExistingKey(infos[n].front, infos[n].back)
       IN [k \in DOMAIN prior \cup {key} |->
             IF k = key THEN infos[n].noteId ELSE prior[k]]

\* the peer's collection after updateNoteFields
RemoteUpdate(rem, id, front, back) ==
  {IF r.noteId = id THEN [r EXCEPT !.front = front, !.back = back] ELSE r :
     r \in rem}

\* the loop "for rows.Next()" of syncWithExisting
RECURSIVE SyncRows(_, _, _, _, _, _)
SyncRows(sess, plan, deckName, existingMap, rows, i) ==
  IF i > Len(rows) THEN sess
  ELSE
    LET fields == Split(rows[i].flds, separator[1])
    IN IF Len(fields) < 2
       THEN SyncRows(sess, plan, deckName, existingMap, rows, i + 1)
       ELSE
         LET key == ExistingKey(fields[1], fields[2])
         IN IF key \in DOMAIN existingMap
            THEN LET noteID == existingMap[key]
                     s1 == Do(sess, plan,
                              [Request("updateNoteFields") EXCEPT
                                 !.id = noteID, !.front = fields[1],
                                 !.back = fields[2]])
                     err == invoke(LastReply(s1))
                 IN IF err # ""
                    THEN [s1 EXCEPT !.err = "failed to update note "
                                            \o ToString(noteID) \o ": " \o err]
                    ELSE SyncRows([s1 EXCEPT !.remote =
                                     RemoteUpdate(@, noteID, fields[1],
                                                  fields[2])],
                                  plan, deckName, existingMap, rows, i + 1)
            ELSE LET s1 == AddNote(sess, plan, deckName, fields, rows[i])
                     err == invokeTyped(LastReply(s1), "note ID type")
                 IN IF err # ""
                       /\ err # "AnkiConnect error: " \o errDuplicate
                    THEN [s1 EXCEPT !.err = "failed to add card: " \o err]
                    ELSE SyncRows(s1, plan, deckName, existingMap, rows, i + 1)

syncWithExisting(sess, plan, deckName, existingMap, m, rows, syncMedia) ==
  LET s1 == IF syncMedia /\ Len(m) > 0
            THEN StoreMedia(sess, plan, m, 1) ELSE sess
  IN SyncRows(s1, plan, deckName, existingMap, rows, 1)

DefaultSync == [nil |-> FALSE, UpdateExisting |-> TRUE,
                DeleteMissing |-> FALSE, SyncMedia |-> FALSE]

\* infos: the peer's notes of the deck, in the order it lists them
SyncToAnkiRun(sess, plan, deckName, m, rows, opts, infos) ==
  LET syncOpts == IF opts.nil THEN DefaultSync ELSE opts
      s1 == Do(sess, plan, Request("version"))
  IN IF invoke(LastReply(s1)) # ""
     THEN [s1 EXCEPT !.err = "failed to connect to AnkiConnect: "
                             \o invoke(LastReply(s1))]
     ELSE
       LET s2 == Do(s1, plan, [Request("createDeck") EXCEPT !.deck = deckName])
           e2 == invoke(LastReply(s2))
       IN IF e2 # "" /\ e2 # "AnkiConnect error: " \o errDeckExists
          THEN [s2 EXCEPT !.err = "failed to create deck: " \o e2]
          ELSE
            LET s3 == Do(s2, plan,
                         [Request("findNotes") EXCEPT !.deck = deckName])
                e3 == invokeTyped(LastReply(s3), "response type")
            IN IF e3 # ""
               THEN [s3 EXCEPT !.err = "failed to find existing notes: " \o e3]
               ELSE IF syncOpts.UpdateExisting /\ Len(infos) > 0
               THEN LET s4 == Do(s3, plan, Request("notesInfo"))
                        e4 == invokeTyped(LastReply(s4), "response type")
                    IN IF e4 # ""
                       THEN [s4 EXCEPT !.err =
                               "failed to get notes info: " \o e4]
                       ELSE syncWithExisting(s4, plan, deckName,
                                             ExistingMap(infos, Len(infos)),
                                             m, rows, syncOpts.SyncMedia)
               ELSE PushToAnkiWithMediaRun(s3, plan, deckName, m, rows,
                                           syncOpts.SyncMedia)

SyncToAnki(d, opts) ==
  /\ alive[d]
  /\ \E rows \in Orders(JoinRows(d)),
        infos \in Orders(RemoteDeck(remote, name[d])) :
       \E plan \in Plans(5 + Len(media[d]) + Len(rows), MaxFaults) :
         \E sess \in {SyncToAnkiRun(Session(remote), plan, name[d], media[d],
                                      rows, opts, infos)} :
            /\ Cardinality(sess.remote) <= MaxRemote
            /\ remote' = sess.remote
            /\ last' = SyncResult("SyncToAnki", d, sess, opts)
  /\ UNCHANGED saving
  /\ UNCHANGED <<clock, alive, name, topDeckID, topModelID, media, notes,
                 cards, colDecks, colModels, files>>

\* the loop "for _, noteInfo := range notesInfo" of PullFromAnki
RECURSIVE PullNotes(_, _, _, _, _, _)
PullNotes(tables, infos, i, deckID, modelID, now) ==
  IF i > Len(infos) THEN tables
  ELSE LET opts == [NilCard EXCEPT !.nil = FALSE, !.Tags = infos[i].tags]
           note == NoteRow(tables.notes, deckID, modelID, infos[i].front,
                           infos[i].back, opts, now)
           card == CardRow(tables.cards, deckID, note.id, now)
       IN PullNotes([notes |-> Upsert(tables.notes, note),
                     cards |-> Upsert(tables.cards, card)],
                    infos, i + 1, deckID, modelID, now)

\* the DELETEs run before the notes are fetched
PullFromAnkiRun_MutantWipe(sess, plan, deckName, infos) ==
  LET s1 == Do(sess, plan, Request("version"))
  IN IF invoke(LastReply(s1)) # ""
     THEN [sess |-> [s1 EXCEPT !.err = "failed to connect to AnkiConnect: "
                                       \o invoke(LastReply(s1))],
           wipe |-> FALSE]
     ELSE
       LET s2 == Do(s1, plan, [Request("findNotes") EXCEPT !.deck = deckName])
           e2 == invokeTyped(LastReply(s2), "response type")
       IN IF e2 # ""
          THEN [sess |-> [s2 EXCEPT !.err = "failed to find notes: " \o e2],
                wipe |-> FALSE]
          ELSE IF Len(infos) = 0 THEN [sess |-> s2, wipe |-> FALSE]
          ELSE LET s3 == Do(s2, plan, Request("notesInfo"))
                   e3 == invokeTyped(LastReply(s3), "response type")
               IN IF e3 # ""
                  THEN [sess |-> [s3 EXCEPT !.err =
                                    "failed to get notes info: " \o e3],
                        wipe |-> TRUE]
                  ELSE [sess |-> s3, wipe |-> TRUE]

\* the remote part of PullFromAnki; wipe tells whether it got to the DELETEs
PullFromAnkiRun(sess, plan, deckName, infos) ==
  LET s1 == Do(sess, plan, Request("version"))
  IN IF invoke(LastReply(s1)) # ""
     THEN [sess |-> [s1 EXCEPT !.err = "failed to connect to AnkiConnect: "
                                       \o invoke(LastReply(s1))],
           wipe |-> FALSE]
     ELSE
       LET s2 == Do(s1, plan, [Request("findNotes") EXCEPT !.deck = deckName])
           e2 == invokeTyped(LastReply(s2), "response type")
       IN IF e2 # ""
          THEN [sess |-> [s2 EXCEPT !.err = "failed to find notes: " \o e2],
                wipe |-> FALSE]
          ELSE IF Len(infos) = 0 THEN [sess |-> s2, wipe |-> FALSE]
          ELSE LET s3 == Do(s2, plan, Request("notesInfo"))
                   e3 == invokeTyped(LastReply(s3), "response type")
               IN IF e3 # ""
                  THEN [sess |-> [s3 EXCEPT !.err =
                                    "failed to get notes info: " \o e3],
                        wipe |-> FALSE]
                  ELSE [sess |-> s3, wipe |-> TRUE]

PullFromAnki(d) ==
  /\ alive[d]
  /\ \E infos \in Orders(RemoteDeck(remote, name[d])) :
       \E plan \in Plans(3, MaxFaults) :
         \E run \in {PullFromAnkiRun(Session(remote), plan, name[d], infos)} :
           LET cleared == [notes |-> {},
                           cards |-> {c \in cards[d] : c.did # topDeckID[d]}]
           IN \E tables \in
                  {IF run.wipe
                   THEN PullNotes(cleared,
                                  IF run.sess.err = "" THEN infos ELSE <<>>,
                                  1, topDeckID[d], topModelID[d], clock)
                   ELSE [notes |-> notes[d], cards |-> cards[d]]} :
                /\ Cardinality(tables.notes) <= MaxNotes
                /\ \A n \in tables.notes : n.mod <= StampLimit
                /\ \A c \in tables.cards : c.mod <= StampLimit
                /\ notes' = [notes EXCEPT ![d] = tables.notes]
                /\ cards' = [cards EXCEPT ![d] = tables.cards]
                /\ last' = SyncResult("PullFromAnki", d, run.sess, NilSync)
  /\ UNCHANGED saving
  /\ UNCHANGED <<clock, alive, name, topDeckID, topModelID, media, colDecks,
                 colModels, remote, files>>

(***************************************************************************)
(* Inputs                                                                  *)
(***************************************************************************)
Fronts == {<<"a">>, <<"a", "b">>}
Backs == {<<"c">>, <<"b", "c">>}
TaggedCard ==
  [NilCard EXCEPT !.nil = FALSE, !.Tags = <<<<"t", "1">>, <<"m", " ", "w">>>>]
\* a tag holding a tab, and no tags at all in non-nil options
TabCard == [NilCard EXCEPT !.nil = FALSE, !.Tags = <<<<"a", "\t", "b">>>>]
CardInputs ==
  {NilCard, TaggedCard, TabCard, [NilCard EXCEPT !.nil = FALSE]}
\* options naming media files, registered or not
MediaCardInputs ==
  {NilCard,
   [NilCard EXCEPT !.nil = FALSE, !.FrontAudio = "a.mp3",
                   !.BackAudio = "b.mp3"],
   [NilCard EXCEPT !.nil = FALSE, !.BackImage = "b.png"],
   [NilCard EXCEPT !.nil = FALSE, !.Tags = <<<<"t", "1">>>>,
                   !.FrontAudio = "a.mp3", !.BackAudio = "b.mp3",
                   !.FrontImage = "a.png", !.BackImage = "b.png",
                   !.FrontVideo = "a.mp4", !.BackVideo = "b.mp4"]}
MediaInputs ==
  {[Filename |-> "a.mp3", Data |-> "bytes1"],
   [Filename |-> "a.mp3", Data |-> "bytes2"],
   [Filename |-> "b.png", Data |-> "bytes1"]}
TemplateInputs ==
  {NilTemplate}
  \cup {[nil |-> FALSE, QuestionFormat |-> q, AnswerFormat |-> a, CSS |-> c] :
          q \in {<<>>, <<"x">>, <<"'">>},
          a \in {<<>>, <<"\"">>, <<"\\", "x">>},
          c \in {<<>>, <<"x", "'", "'">>}}
SyncInputs ==
  {NilSync,
   [nil |-> FALSE, UpdateExisting |-> TRUE, DeleteMissing |-> TRUE,
    SyncMedia |-> TRUE],
   [nil |-> FALSE, UpdateExisting |-> FALSE, DeleteMissing |-> TRUE,
    SyncMedia |-> FALSE]}
\* what the peer may hold when the program starts
RemoteSeeds ==
  {[noteId |-> 1, deckName |-> "Deck A", front |-> <<"a">>,
    back |-> <<"b", "c">>, tags |-> <<<<"t", "1">>>>],
   [noteId |-> 2, deckName |-> "Deck A", front |-> <<"z">>,
    back |-> <<"c">>, tags |-> <<>>]}

(***************************************************************************)
(* Specifications                                                          *)
(***************************************************************************)
InitDecks ==
  /\ clock \in Clock
  /\ alive = [d \in Decks |-> FALSE]
  /\ name = [d \in Decks |-> ""]
  /\ topDeckID = [d \in Decks |-> 0]
  /\ topModelID = [d \in Decks |-> 0]
  /\ media = [d \in Decks |-> <<>>]
  /\ notes = [d \in Decks |-> {}]
  /\ cards = [d \in Decks |-> {}]
  /\ colDecks = [d \in Decks |-> <<>>]
  /\ colModels = [d \in Decks |-> <<>>]
  /\ files = {}
  /\ last = NoResult
  /\ saving = [d \in Decks |-> Idle]

Init == InitDecks /\ remote = {}

\* one deck: construction and card insertion
Next ==
  \/ \E nm \in Names : NewDeckWithTemplate(1, nm, NilTemplate)
  \/ \E f \in Fronts, b \in Backs, o \in CardInputs :
       AddCardWithOptions(1, f, b, o, "none")
  \/ Tick

Spec == Init /\ [][Next]_vars

\* one deck whose store may reject either statement of a card insertion
NextCard ==
  \/ \E nm \in Names : NewDeckWithTemplate(1, nm, NilTemplate)
  \/ \E f \in Fronts, fault \in CardFaults :
       AddCardWithOptions(1, f, <<"c">>, NilCard, fault)
  \/ Tick

SpecCard == Init /\ [][NextCard]_vars

\* one deck: cards whose options name media files, and the media registry
NextMedia ==
  \/ \E nm \in Names : NewDeckWithTemplate(1, nm, NilTemplate)
  \/ AddMedia(1, "a.mp3", "bytes1")
  \/ \E o \in MediaCardInputs :
       AddCardWithOptions(1, <<"a">>, <<"c">>, o, "none")
  \/ Tick

SpecMedia == Init /\ [][NextMedia]_vars

\* two decks constructed at the same clock reading, hence with the same deck
\* id, then filled independently
InitGuid ==
  LET col == ExecTemplate(createTemplate(NilTemplate))
      now == ClockBase + 1
  IN /\ clock \in Clock
     /\ alive = [d \in Decks |-> TRUE]
     /\ name = [d \in Decks |-> "Deck A"]
     /\ topDeckID = [d \in Decks |-> GetID({}, now)]
     /\ topModelID = [d \in Decks |-> GetID({}, now)]
     /\ media = [d \in Decks |-> <<>>]
     /\ notes = [d \in Decks |-> {}]
     /\ cards = [d \in Decks |-> {}]
     /\ colDecks = [d \in Decks |->
                      updateDeckName(col.decks, Itoa(SeedDeckID), "Deck A",
                                     now)]
     /\ colModels = [d \in Decks |->
                       updateModel(col.models, Itoa(SeedModelID), "Deck A",
                                   now, now)]
     /\ remote = {}
     /\ files = {}
     /\ last = NoResult
     /\ saving = [d \in Decks |-> Idle]

NextGuid ==
  \/ \E f \in Fronts : AddCardWithOptions(1, f, <<"c">>, NilCard, "none")
  \/ AddCardWithOptions(2, <<"a">>, <<"c">>, TaggedCard, "none")
  \/ AddMedia(1, "a.mp3", "bytes1")
  \/ Tick

SpecGuid == InitGuid /\ [][NextGuid]_vars

\* two decks whose exports run concurrently
NextExport ==
  \/ AddCardWithOptions(1, <<"a">>, <<"c">>, NilCard, "none")
  \/ AddMedia(2, "a.mp3", "bytes1")
  \/ \E d \in Decks : SaveOpen(d)
  \/ \E d \in Decks : SaveFinish(d)
  \/ Tick

SpecExport == InitGuid /\ [][NextExport]_vars

\* two decks: construction with template options
NextNew ==
  \/ \E d \in Decks, nm \in Names, o \in TemplateInputs :
       NewDeckWithTemplate(d, nm, o)
  \/ Tick

SpecNew == Init /\ [][NextNew]_vars

\* one deck: media and export
NextSave ==
  \/ \E nm \in Names : NewDeckWithTemplate(1, nm, NilTemplate)
  \/ AddCardWithOptions(1, <<"a">>, <<"c">>, NilCard, "none")
  \/ \E m \in MediaInputs : AddMedia(1, m.Filename, m.Data)
  \/ \E fault \in SaveFaults : Save(1, fault)
  \/ Tick

SpecSave == Init /\ [][NextSave]_vars

\* one deck and the AnkiConnect peer; a remote operation is followed by a
\* local one before the next remote operation starts
RemoteOps == {"PushToAnki", "SyncToAnki", "PullFromAnki"}
SyncDecks == IF last.op \in RemoteOps THEN {} ELSE {1}

InitSync ==
  /\ InitDecks
  /\ clock = ClockBase + 1
  /\ remote \in SUBSET RemoteSeeds

NextSync ==
  \/ \E nm \in Names : NewDeckWithTemplate(1, nm, NilTemplate)
  \/ AddCardWithOptions(1, <<"a">>, <<"b", "c">>, TaggedCard, "none")
  \/ AddCardWithOptions(1, <<"z">>, <<"c">>, NilCard, "none")
  \/ \E d \in SyncDecks, o \in SyncInputs : SyncToAnki(d, o)
  \/ \E d \in SyncDecks : PullFromAnki(d)

SpecSync == InitSync /\ [][NextSync]_vars

\* one deck pushed to a peer whose collection starts empty
InitPush ==
  /\ InitDecks
  /\ clock = ClockBase + 1
  /\ remote = {}

NextPush ==
  \/ \E nm \in Names : NewDeckWithTemplate(1, nm, NilTemplate)
  \/ AddCardWithOptions(1, <<"a">>, <<"b", "c">>, TaggedCard, "none")
  \/ AddCardWithOptions(1, <<"z">>, <<"c">>, NilCard, "none")
  \/ AddMedia(1, "a.mp3", "bytes1")
  \/ \E d \in SyncDecks, sm \in BOOLEAN : PushToAnkiWithMedia(d, sm)

SpecPush == InitPush /\ [][NextPush]_vars

\* one deck filled by card insertion and by pulls from a peer whose
\* collection does not change
Collider ==
  [noteId |-> 3, deckName |-> "Deck A", front |-> <<"a", "b">>,
   back |-> <<"c">>, tags |-> <<>>]

InitPull ==
  /\ InitDecks
  /\ remote \in {{}, {r \in RemoteSeeds : r.noteId = 2},
                  {Collider} \cup {r \in RemoteSeeds : r.noteId = 1}}

NextPull ==
  \/ \E nm \in Names : NewDeckWithTemplate(1, nm, NilTemplate)
  \/ \E f \in Fronts : AddCardWithOptions(1, f, <<"c">>, NilCard, "none")
  \/ PullFromAnki(1)
  \/ Tick

SpecPull == InitPull /\ [][NextPull]_vars

\* one deck under every operation
NextAll ==
  \/ \E nm \in Names : NewDeckWithTemplate(1, nm, NilTemplate)
  \/ AddCardWithOptions(1, <<"a">>, <<"b", "c">>, TaggedCard, "none")
  \/ AddMedia(1, "a.mp3", "bytes1")
  \/ Save(1, "none")
  \/ \E d \in SyncDecks : PushToAnkiWithMedia(d, TRUE)
  \/ \E d \in SyncDecks : SyncToAnki(d, NilSync)
  \/ \E d \in SyncDecks : PullFromAnki(d)

SpecAll == InitPush /\ [][NextAll]_vars

\* one deck synchronised with a peer, the texts on both sides holding the
\* character the lookup key of SyncToAnki is joined with
BarSeed ==
  [noteId |-> 4, deckName |-> "Deck A", front |-> <<"a">>,
   back |-> <<"b", "|", "c">>, tags |-> <<>>]

InitBar ==
  /\ InitDecks
  /\ clock = ClockBase + 1
  /\ remote \in {{BarSeed}, {BarSeed} \cup {r \in RemoteSeeds : r.noteId = 2}}

NextBar ==
  \/ \E nm \in Names : NewDeckWithTemplate(1, nm, NilTemplate)
  \/ AddCardWithOptions(1, <<"a", "|", "b">>, <<"c">>, NilCard, "none")
  \/ AddCardWithOptions(1, <<"z">>, <<"c">>, NilCard, "none")
  \/ \E d \in SyncDecks : SyncToAnki(d, NilSync)

SpecBar == InitBar /\ [][NextBar]_vars

(***************************************************************************)
(* Properties                                                              *)
(***************************************************************************)
Flds(front, back) == front \o separator \o back

\* C1: when AddCard(front, back) succeeds right after a successful AddCard
\* with the same front and back on the same deck, the notes table holds
\* exactly one row with that content, the cards table exactly one row
\* referencing it, and the call changed neither row count.
C1_AddCardIdempotent ==
  [][\A d \in Decks :
       (last'.op = "AddCard" /\ last'.deck = d /\ last'.again
        /\ last'.err = "")
       => /\ Cardinality(notes'[d]) = Cardinality(notes[d])
          /\ Cardinality(cards'[d]) = Cardinality(cards[d])
          /\ LET rows == {n \in notes'[d] :
                            n.flds = Flds(last'.front, last'.back)}
             IN /\ Cardinality(rows) = 1
                /\ \A n \in rows :
                     Cardinality({c \in cards'[d] : c.nid = n.id}) = 1]_vars

C1_Witness ==
  /\ last.op = "AddCard" /\ last.again /\ last.err = ""
  /\ Cardinality(notes[last.deck]) = 2

\* C2: after a successful construction the deck-definitions blob has an
\* entry keyed by topDeckID with the deck's name and id, the placeholder key
\* of the "Template" seed is gone and the "Default" entry is as seeded.
C2_SeedDeckRenamed ==
  \A d \in Decks :
    alive[d] =>
      /\ Itoa(topDeckID[d]) \in DOMAIN colDecks[d]
      /\ colDecks[d][Itoa(topDeckID[d])].name = name[d]
      /\ colDecks[d][Itoa(topDeckID[d])].id = topDeckID[d]
      /\ Itoa(SeedDeckID) \notin DOMAIN colDecks[d]
      /\ Itoa(DefaultDeckID) \in DOMAIN colDecks[d]
      /\ colDecks[d][Itoa(DefaultDeckID)] = SeedDecks[Itoa(DefaultDeckID)]

\* C3 as stated: any two constructed decks have different topDeckID values
\* and different topModelID values.
C3_DistinctIDs ==
  \A d1, d2 \in Decks :
    (alive[d1] /\ alive[d2] /\ d1 # d2)
    => /\ topDeckID[d1] # topDeckID[d2]
       /\ topModelID[d1] # topModelID[d2]

\* C3 as amended: a deck's topDeckID and topModelID are both the clock
\* reading at its construction, so a deck constructed while another deck
\* exists gets ids different from that deck's exactly when the clock reading
\* differs from the reading the other deck was constructed at.
C3_IDsAreClockReading ==
  [][\A d \in Decks :
       (~alive[d] /\ alive'[d])
       => /\ topDeckID'[d] = clock
          /\ topModelID'[d] = clock
          /\ \A e \in Decks \ {d} :
               alive[e] =>
                 /\ (topDeckID'[d] = topDeckID[e]) <=> (clock = topDeckID[e])
                 /\ (topModelID'[d] = topModelID[e])
                      <=> (clock = topModelID[e])]_vars

C3_Witness ==
  /\ alive[1] /\ alive[2]
  /\ topDeckID[1] = topDeckID[2]
  /\ topModelID[1] = topModelID[2]

DecimalNames == <<<<"0">>, <<"1">>, <<"2">>, <<"3">>, <<"4">>>>

\* C4: a successful Save() of a deck with n media entries returns the
\* entries "collection.anki2", "media", "0" .. "n-1" and no other; "media"
\* maps each index to the filename of that media entry and the entry named
\* by the index holds that entry's payload.
C4_ArchiveLayout ==
  (last.op = "Save" /\ last.err = "")
  => LET m == media[last.deck]
         z == last.zip
     IN /\ Len(z) = Len(m) + 2
        /\ z[1].name = <<"collection.anki2">>
        /\ z[2].name = <<"media">>
        /\ DOMAIN z[2].body = {DecimalNames[i] : i \in 1..Len(m)}
        /\ \A i \in 1..Len(m) :
             /\ z[i + 2].name = DecimalNames[i]
             /\ z[i + 2].body = m[i].Data
             /\ z[2].body[DecimalNames[i]] = m[i].Filename

C4_Witness ==
  /\ last.op = "Save" /\ last.err = ""
  /\ Len(media[last.deck]) = 2
  /\ media[last.deck][1].Data # media[last.deck][2].Data
  /\ media[last.deck][1].Filename = media[last.deck][2].Filename

\* C5: whichever way Save() returned, the temporary database file of that
\* call does not exist afterwards.
C5_TmpFileRemoved ==
  last.op = "Save" => TmpFile(last.tmp) \notin files

C5_Witness ==
  /\ last.op = "Save" /\ last.err # "" /\ last.created
  /\ last.zip = <<>>

\* C6: NewDeckWithTemplate succeeds for every choice of template strings and
\* the stored model has exactly the supplied qfmt, afmt and css, each empty
\* one replaced by its default.
C6_TemplateStored ==
  last.op = "NewDeck"
  => /\ last.err = ""
     /\ \A k \in DOMAIN colModels[last.deck] :
          LET model == colModels[last.deck][k]
              given == last.given
          IN /\ model.qfmt = IF given.QuestionFormat = <<>>
                             THEN DefaultQuestionFormat
                             ELSE given.QuestionFormat
             /\ model.afmt = IF given.AnswerFormat = <<>>
                             THEN DefaultAnswerFormat ELSE given.AnswerFormat
             /\ model.css = IF given.CSS = <<>>
                            THEN DefaultCSS ELSE given.CSS

\* C7: after a successful PullFromAnki the local notes are exactly the
\* (Front, Back, tags) of the notes the peer holds for the deck, also when
\* it holds none.
C7_PullReplaces ==
  (last.op = "PullFromAnki" /\ last.err = "")
  => {<<n.flds, n.tags>> : n \in notes[last.deck]}
     = {<<Flds(r.front, r.back), TagsString([nil |-> FALSE, Tags |-> r.tags])>> :
          r \in RemoteDeck(remote, name[last.deck])}

\* C8: after a successful SyncToAnki with DeleteMissing set, every note of
\* the peer's deck has the content of a local note.
C8_DeleteMissing ==
  (last.op = "SyncToAnki" /\ last.err = "" /\ last.sync.DeleteMissing)
  => \A r \in RemoteDeck(remote, name[last.deck]) :
       \E n \in notes[last.deck] : n.flds = Flds(r.front, r.back)

AllOK(calls) == \A i \in 1..Len(calls) : calls[i].reply = ReplyOK

\* C9: PushToAnki on a deck of N notes, every request answered with success,
\* issues "version", then "createDeck" with the deck's name, then one
\* "addNote" per local note, N + 2 calls in all, and returns no error.
C9_PushCalls ==
  (last.op = "PushToAnki" /\ ~last.sync.SyncMedia /\ AllOK(last.calls))
  => LET N == Cardinality(notes[last.deck])
         calls == last.calls
     IN /\ last.err = ""
        /\ Len(calls) = N + 2
        /\ calls[1].action = "version"
        /\ calls[2].action = "createDeck"
        /\ calls[2].deck = name[last.deck]
        /\ \A i \in 3..(N + 2) : calls[i].action = "addNote"
        /\ \A n \in notes[last.deck] :
             Cardinality({i \in 3..(N + 2) :
                            Flds(calls[i].front, calls[i].back) = n.flds}) = 1

C9_Witness ==
  /\ last.op = "PushToAnki" /\ ~last.sync.SyncMedia /\ AllOK(last.calls)
  /\ Cardinality(notes[last.deck]) = 2
  /\ Len(media[last.deck]) > 0

Soft(call) ==
  /\ ~call.reply.transport
  /\ \/ call.action = "createDeck" /\ call.reply.error = errDeckExists
     \/ call.action = "addNote" /\ call.reply.error = errDuplicate

\* a reply that makes CreateDeck, respectively AddNote, return an error
Failed(call) ==
  \/ call.reply.transport
  \/ call.reply.error # ""
  \/ call.action = "addNote" /\ ~call.reply.typed

\* C10: in PushToAnkiWithMedia a createDeck or addNote reply with another
\* error than its soft one is the last call and its message is returned; with
\* "version" answered and only soft errors and storeMediaFile failures the
\* push sends every note and returns no error.
C10_SoftErrors ==
  last.op = "PushToAnki"
  => LET calls == last.calls
         kinds == {"createDeck", "addNote"}
     IN /\ \A i \in 1..Len(calls) :
             (calls[i].action \in kinds /\ Failed(calls[i])
              /\ ~Soft(calls[i]))
             => /\ i = Len(calls)
                /\ last.err =
                     (IF calls[i].action = "createDeck"
                      THEN "failed to create deck: "
                      ELSE "failed to add card: ")
                     \o invokeTyped(calls[i].reply, "note ID type")
        /\ (/\ calls[1].reply.error = "" /\ ~calls[1].reply.transport
            /\ \A i \in 1..Len(calls) :
                 (calls[i].action \in kinds /\ Failed(calls[i]))
                 => Soft(calls[i]))
           => /\ last.err = ""
              /\ Cardinality({i \in 1..Len(calls) :
                                calls[i].action = "addNote"})
                 = Cardinality(notes[last.deck])
              /\ Cardinality({i \in 1..Len(calls) :
                                calls[i].action = "storeMediaFile"})
                 = IF last.sync.SyncMedia THEN Len(media[last.deck]) ELSE 0

C10_Witness ==
  /\ last.op = "PushToAnki" /\ last.err = ""
  /\ \E i \in 1..Len(last.calls) :
       /\ i < Len(last.calls)
       /\ last.calls[i].action = "addNote"
       /\ Soft(last.calls[i])

\* the step is a call of AddCardWithOptions on deck d that the store failed
\* at the given statement
AddCardFailed(d, fault) ==
  /\ last'.op = "AddCard" /\ last'.deck = d /\ last'.fault = fault
  /\ <<notes, cards, last>> # <<notes', cards', last'>>

\* C11 as stated: when the card upsert fails after the note upsert the call
\* returns an error and the note row is stored with no card row referencing
\* it; when the note upsert fails the call returns an error and neither
\* table changes.
C11_OrphanNote ==
  [][\A d \in Decks :
       /\ AddCardFailed(d, "card")
          => /\ last'.err # ""
             /\ \E n \in notes'[d] :
                  n.id = last'.nid /\ n.flds = Flds(last'.front, last'.back)
             /\ ~\E c \in cards'[d] : c.nid = last'.nid
       /\ AddCardFailed(d, "note")
          => /\ last'.err # ""
             /\ notes'[d] = notes[d]
             /\ cards'[d] = cards[d]]_vars

\* C11 as amended: when the card upsert fails the note row is stored and the
\* cards table is left as it was, so the note has a card row afterwards
\* exactly when a card row referenced its id before the call (an updated
\* note keeps its earlier card); when the note upsert fails neither table
\* changes; both calls return an error.
C11_NoRollback ==
  [][\A d \in Decks :
       /\ AddCardFailed(d, "card")
          => /\ last'.err = "failed to insert card"
             /\ \E n \in notes'[d] :
                  n.id = last'.nid /\ n.flds = Flds(last'.front, last'.back)
             /\ cards'[d] = cards[d]
             /\ (\E c \in cards'[d] : c.nid = last'.nid)
                <=> (\E c \in cards[d] : c.nid = last'.nid)
             /\ (~\E n \in notes[d] : n.id = last'.nid)
                => ~\E c \in cards'[d] : c.nid = last'.nid
       /\ AddCardFailed(d, "note")
          => /\ last'.err = "failed to insert note"
             /\ notes'[d] = notes[d]
             /\ cards'[d] = cards[d]]_vars

\* an orphan note: the card upsert failed for a note that was new
C11_Witness ==
  /\ last.op = "AddCard" /\ last.fault = "card" /\ last.err # ""
  /\ \E n \in notes[last.deck] :
       n.id = last.nid /\ ~\E c \in cards[last.deck] : c.nid = n.id
  /\ cards[last.deck] # {}

Whitespace == {" ", "\t", "\n", "\r"}

RECURSIVE Underscored(_)
Underscored(tag) ==
  IF Len(tag) = 0 THEN <<>>
  ELSE <<IF tag[1] \in Whitespace THEN "_" ELSE tag[1]>>
       \o Underscored(Tail(tag))

\* C13: the tags string stored by a successful AddCardWithOptions is empty
\* for an empty tag list or nil options, and otherwise a space, the tags in
\* order with each whitespace character replaced by an underscore and joined
\* by single spaces, and a space.
C13_TagsStored ==
  (last.op = "AddCard" /\ last.err = "")
  => \A n \in notes[last.deck] :
       n.id = last.nid
       => n.tags = IF Len(last.tags) = 0 THEN <<>>
                   ELSE <<" ">>
                        \o Join([i \in 1..Len(last.tags) |->
                                   Underscored(last.tags[i])], <<" ">>)
                        \o <<" ">>

\* C14: AddMedia(filename, data) returns no error and leaves the media list
\* equal to the previous list with (filename, data) appended, also when the
\* filename is already listed; notes, cards and the collection row are
\* unchanged.
C14_AddMediaAppends ==
  [][\A d \in Decks :
       (/\ last'.op = "AddMedia" /\ last'.deck = d
        /\ <<media, last>> # <<media', last'>>)
       => /\ last'.err = ""
          /\ Len(media'[d]) = Len(media[d]) + 1
          /\ \A i \in 1..Len(media[d]) : media'[d][i] = media[d][i]
          /\ media'[d][Len(media'[d])]
               = [Filename |-> last'.filename, Data |-> last'.data]
          /\ notes' = notes /\ cards' = cards
          /\ colDecks' = colDecks /\ colModels' = colModels]_vars

C14_Witness ==
  /\ last.op = "AddMedia"
  /\ Len(media[last.deck]) = 2
  /\ media[last.deck][1].Filename = last.filename
  /\ media[last.deck][1].Data # last.data
  /\ notes[last.deck] # {}

\* C12: a failure replaying one CREATE statement or copying one of the five
\* tables leaves Save() successful with every other table copied in full; a
\* failure reading the snapshot back or writing a zip entry makes Save()
\* return an error and no archive.
C12_BestEffortExport ==
  last.op = "Save"
  => /\ last.fault \in DDLFaults \cup CopyFaults
        => /\ last.err = ""
           /\ Len(last.zip) >= 2
           /\ \A t \in TableSet :
                (last.fault # "ddl " \o t /\ last.fault # "copy " \o t)
                => /\ t \in DOMAIN last.zip[1].body
                   /\ last.zip[1].body[t] = TableRows(last.deck, t)
     /\ last.fault \in {"read", "zip"}
        => /\ last.err # ""
           /\ last.zip = <<>>

C12_Witness ==
  /\ last.op = "Save" /\ last.fault = "copy notes" /\ last.err = ""
  /\ notes[last.deck] # {}
  /\ last.zip[1].body["notes"] = {}
  /\ last.zip[1].body["cards"] # {}

\* sub occurs in s as a run of consecutive tokens
Contains(s, sub) ==
  \E i \in 0..(Len(s) - Len(sub)) : SubSeq(s, i + 1, i + Len(sub)) = sub

C16_SeedModelRenamed ==
  \A d \in Decks :
    alive[d] =>
      /\ DOMAIN colModels[d] = {Itoa(topModelID[d])}
      /\ colModels[d][Itoa(topModelID[d])].name = name[d]
      /\ colModels[d][Itoa(topModelID[d])].did = topDeckID[d]
      /\ colModels[d][Itoa(topModelID[d])].id = topModelID[d]
      /\ Itoa(SeedModelID) \notin DOMAIN colModels[d]

C16_Witness ==
  /\ alive[1] /\ alive[2]
  /\ last.op = "NewDeck" /\ last.err = "" /\ ~last.given.nil
  /\ topModelID[1] # topModelID[2]

\* C17: the stored guid depends on the deck id, the front and the back only:
\* two decks with the same deck id hold the same guid for the same front and
\* back, whatever the clock read, the tags, the media list and the other
\* notes of either deck were.
C17_GuidDeterministic ==
  \A d1, d2 \in Decks :
    (alive[d1] /\ alive[d2] /\ topDeckID[d1] = topDeckID[d2])
    => \A n1 \in notes[d1], n2 \in notes[d2] :
         n1.flds = n2.flds => n1.guid = n2.guid

C17_Witness ==
  /\ alive[1] /\ alive[2] /\ topDeckID[1] = topDeckID[2]
  /\ Len(media[1]) # Len(media[2])
  /\ Cardinality(notes[1]) # Cardinality(notes[2])
  /\ \E n1 \in notes[1], n2 \in notes[2] :
       /\ n1.flds = n2.flds /\ n1.tags # n2.tags /\ n1.mod # n2.mod
       /\ n1.id # n2.id

\* C18: once a deck is constructed no operation changes its topDeckID or
\* topModelID, and every card row has did = topDeckID and every note row
\* mid = topModelID.
C18_IDsImmutable ==
  [][\A d \in Decks :
       /\ alive[d] => /\ topDeckID'[d] = topDeckID[d]
                      /\ topModelID'[d] = topModelID[d]
       /\ \A c \in cards'[d] : c.did = topDeckID'[d]
       /\ \A n \in notes'[d] : n.mid = topModelID'[d]]_vars

\* a deck with media whose rows were rewritten by PullFromAnki
C18_Witness ==
  /\ last.op = "PullFromAnki" /\ last.err = ""
  /\ Len(last.calls) = 3
  /\ cards[last.deck] # {}
  /\ Len(media[last.deck]) > 0

\* what the operations put in front of the error of a remote call
ErrPrefixes ==
  {"failed to connect to AnkiConnect: ", "failed to create deck: ",
   "failed to add card: ", "failed to find existing notes: ",
   "failed to find notes: ", "failed to get notes info: "}
  \cup {"failed to update note " \o ToString(r.noteId) \o ": " : r \in remote}

\* a call whose error the operations log or skip instead of returning
Tolerated(call) == Soft(call) \/ call.action = "storeMediaFile"

\* the call returned no error: the exchange worked, the error field is empty
\* and, where the caller reads the result, it has the expected type
NoError(call) ==
  /\ call.reply.error = "" /\ ~call.reply.transport
  /\ call.action \in {"addNote", "findNotes", "notesInfo"}
     => call.reply.typed

\* C19: a remote call returns an error exactly when the response carries a
\* non-empty error field or the exchange or its decoding failed; for a
\* non-empty error field the error text is "AnkiConnect error: " followed by
\* the remote message, which is what the operation returns (behind its own
\* prefix) without using the result.
C19_RemoteErrors ==
  last.op \in RemoteOps
  => LET calls == last.calls
         final == calls[Len(calls)]
     IN /\ \A i \in 1..Len(calls) :
             (calls[i].reply.error # "" /\ ~calls[i].reply.transport
              /\ ~Tolerated(calls[i]))
             => /\ i = Len(calls)
                /\ \E pre \in ErrPrefixes :
                     last.err = pre \o "AnkiConnect error: "
                                \o calls[i].reply.error
        /\ last.err # "" <=> ~(NoError(final) \/ Tolerated(final))
        /\ \A i \in 1..(Len(calls) - 1) :
             NoError(calls[i]) \/ Tolerated(calls[i])

C19_Witness ==
  /\ last.op = "SyncToAnki"
  /\ Len(last.calls) = 3
  /\ last.calls[3].action = "findNotes"
  /\ last.calls[3].reply.error = "collection is not available"
  /\ last.err = "failed to find existing notes: AnkiConnect error: "
                \o "collection is not available"
  /\ RemoteDeck(remote, name[last.deck]) # {}

\* C20: notes and cards correspond one to one: every note row has exactly
\* one card row with its id as nid, of ordinal 0, and every card row's nid
\* is the id of a note row.
C20_OneCardPerNote ==
  \A d \in Decks :
    /\ \A n \in notes[d] :
         /\ Cardinality({c \in cards[d] : c.nid = n.id}) = 1
         /\ \A c \in cards[d] : c.nid = n.id => c.ord = 0
    /\ \A c \in cards[d] : \E n \in notes[d] : n.id = c.nid
    /\ Cardinality({n.id : n \in notes[d]}) = Cardinality(notes[d])

\* a pulled note next to an inserted one, after a re-insertion
C20_Witness ==
  /\ last.op = "AddCard" /\ last.again /\ last.err = ""
  /\ Cardinality(notes[last.deck]) = 2
  /\ \E n \in notes[last.deck] : n.flds = Flds(<<"z">>, <<"c">>)

\* the step is a successful AddCardWithOptions on deck d
AddCardDone(d) ==
  /\ last'.op = "AddCard" /\ last'.deck = d /\ last'.err = ""
  /\ <<notes, cards, last>> # <<notes', cards', last'>>

\* C21: when AddCard assigns a fresh note id (no stored note has the guid)
\* or a fresh card id (no stored card references the note), the id is
\* greater than every id the table held, whatever the clock reads, and
\* every row the table held is still there.
C21_FreshIDsGreater ==
  [][\A d \in Decks :
       AddCardDone(d)
       => /\ \A n \in notes'[d] :
               (n.id = last'.nid /\ ~\E m \in notes[d] : m.guid = n.guid)
               => /\ \A m \in notes[d] : m.id < n.id
                  /\ notes[d] \subseteq notes'[d]
          /\ \A c \in cards'[d] :
               (c.nid = last'.nid /\ ~\E k \in cards[d] : k.nid = c.nid)
               => /\ \A k \in cards[d] : k.id < c.id
                  /\ cards[d] \subseteq cards'[d]]_vars

\* a fresh note id assigned while the clock reads less than a stored id
C21_Witness ==
  /\ last.op = "AddCard" /\ last.err = ""
  /\ Cardinality(notes[last.deck]) = 2
  /\ last.nid = Max({n.id : n \in notes[last.deck]})
  /\ \E n \in notes[last.deck] : n.id # last.nid /\ clock < n.id

\* C22: a successful AddCard whose (front, back) pair differs from the pair
\* of every note the deck holds adds a note row: two calls with different
\* pairs leave two distinct notes.
C22_DistinctPairsDistinctNotes ==
  [][\A d \in Decks :
       (AddCardDone(d)
        /\ \A m \in notes[d] : m.flds # Flds(last'.front, last'.back))
       => /\ Cardinality(notes'[d]) = Cardinality(notes[d]) + 1
          /\ notes[d] \subseteq notes'[d]]_vars

\* C23: in a constructed deck every card's did is a key of the
\* deck-definitions blob and every note's mid is a key of the
\* model-definitions blob.
C23_RowsReferToDefinitions ==
  \A d \in Decks :
    alive[d] =>
      /\ \A c \in cards[d] : Itoa(c.did) \in DOMAIN colDecks[d]
      /\ \A n \in notes[d] : Itoa(n.mid) \in DOMAIN colModels[d]

\* C24: a successful AddCard of content a stored note already has updates in
\* place: the note keeps its id and guid, its card keeps its id, no row is
\* added, and the note's tags are those of this call alone, empty when the
\* call names none.
C24_ReAddUpdatesInPlace ==
  [][\A d \in Decks :
       AddCardDone(d)
       => \A m \in notes[d] :
            m.flds = Flds(last'.front, last'.back)
            => /\ Cardinality(notes'[d]) = Cardinality(notes[d])
               /\ Cardinality(cards'[d]) = Cardinality(cards[d])
               /\ \E n \in notes'[d] :
                    /\ n.id = m.id /\ n.guid = m.guid /\ n.flds = m.flds
                    /\ n.tags = TagsString(last'.card)
                    /\ Len(last'.tags) = 0 => n.tags = <<>>
               /\ \A c \in cards[d] :
                    c.nid = m.id
                    => \E k \in cards'[d] : k.id = c.id /\ k.nid = m.id]_vars

\* a note re-added later without tags, beside a note that has tags
C24_Witness ==
  /\ last.op = "AddCard" /\ last.again /\ last.err = ""
  /\ Len(last.tags) = 0
  /\ \E n \in notes[last.deck] :
       /\ n.id = last.nid /\ n.mod > n.id /\ n.tags = <<>>
       /\ \E c \in cards[last.deck] : c.nid = n.id /\ c.mod > c.id
  /\ \E n \in notes[last.deck] : n.tags # <<>>

\* C25: a PullFromAnki whose "version", "findNotes" or "notesInfo" call
\* fails returns an error and leaves the local notes and cards exactly as
\* they were.
C25_PullReadsBeforeDeleting ==
  [][(/\ last'.op = "PullFromAnki"
      /\ \E i \in 1..Len(last'.calls) : ~NoError(last'.calls[i]))
     => /\ last'.err # ""
        /\ notes' = notes
        /\ cards' = cards]_vars

\* "notesInfo" failed on a deck that holds notes and cards
C25_Witness ==
  /\ last.op = "PullFromAnki" /\ last.err # ""
  /\ Len(last.calls) = 3
  /\ last.calls[3].action = "notesInfo" /\ ~NoError(last.calls[3])
  /\ notes[last.deck] # {} /\ cards[last.deck] # {}

IsWrite(call) == call.action \in {"updateNoteFields", "addNote"}

\* C26: a SyncToAnki with UpdateExisting set, on a peer that holds a note of
\* the deck, every request answered with success, makes one remote write per
\* local note: "updateNoteFields" on a remote note whose Front and Back are
\* the local front and back, "addNote" when the peer holds no such note.
C26_SyncMatchesByContent ==
  [][(/\ last'.op = "SyncToAnki"
      /\ last' # last \/ remote' # remote
      /\ last'.sync.nil \/ last'.sync.UpdateExisting
      /\ RemoteDeck(remote, name[last'.deck]) # {}
      /\ AllOK(last'.calls))
     => LET d == last'.deck
            before == RemoteDeck(remote, name[d])
            writes == SelectSeq(last'.calls, IsWrite)
        IN /\ last'.err = ""
           /\ Len(writes) = Cardinality(JoinRows(d))
           /\ {Flds(writes[i].front, writes[i].back) : i \in 1..Len(writes)}
              = {row.flds : row \in JoinRows(d)}
           /\ \A i \in 1..Len(writes) :
                LET w == writes[i]
                    same == {r \in before :
                               r.front = w.front /\ r.back = w.back}
                IN IF same # {}
                   THEN /\ w.action = "updateNoteFields"
                        /\ w.id \in {r.noteId : r \in same}
                   ELSE w.action = "addNote"]_vars

\* C27: every remote operation issues "version" first; when that call fails
\* it is the only call, the operation returns an error, and the notes,
\* cards, collection row, media list and the peer are as they were.
C27_PingFirst ==
  [][last'.op \in RemoteOps
     => /\ Len(last'.calls) >= 1
        /\ last'.calls[1].action = "version"
        /\ ~NoError(last'.calls[1])
           => /\ Len(last'.calls) = 1
              /\ last'.err # ""
              /\ UNCHANGED <<notes, cards, media, colDecks, colModels,
                             topDeckID, topModelID, name, remote>>]_vars

\* a pull whose "version" call found no peer, on a deck with a note and media
C27_Witness ==
  /\ last.op = "PullFromAnki"
  /\ Len(last.calls) = 1 /\ last.calls[1].reply.transport
  /\ last.err # ""
  /\ notes[last.deck] # {} /\ Len(media[last.deck]) > 0

\* C28: Save() leaves the notes, the cards, the collection row, the media
\* list, topDeckID and topModelID as they were, so a successful Save() that
\* follows a successful Save() of the same deck under the same export
\* conditions returns the same entries: names, media manifest and table rows.
C28_SaveReadsOnly ==
  [][last'.op = "Save"
     => /\ UNCHANGED <<notes, cards, colDecks, colModels, media, topDeckID,
                       topModelID, name, alive, remote>>
        /\ (last'.again /\ last'.err = "" /\ last.op = "Save"
            /\ last.fault = last'.fault)
           => last'.zip = last.zip]_vars

\* a second successful Save() in a row of a deck with a note and two media
C28_Witness ==
  /\ last.op = "Save" /\ last.again /\ last.err = "" /\ last.fault = "none"
  /\ Len(media[last.deck]) = 2
  /\ notes[last.deck] # {}
  /\ Len(last.zip) = 4
  /\ last.zip[1].body["notes"] = notes[last.deck]

\* some Save() call is between naming its temporary file and removing it
InFlight(d) == saving[d].pc # "idle"

\* C29: two Save() calls in progress on two different decks never use the
\* same temporary path, and the snapshot of a call in progress exists until
\* that call removes it.
C29_TmpPathsDistinct ==
  \A d \in Decks :
    InFlight(d)
    => /\ TmpFile(saving[d].tmp) \in files
       /\ \A e \in Decks \ {d} :
            InFlight(e) => TmpFile(saving[e].tmp) # TmpFile(saving[d].tmp)

\* C30: after NewDeckWithTemplate the TemplateOptions value the caller
\* supplied holds what it held before the call.
C30_OptionsUntouched ==
  last.op = "NewDeck" => last.opts = last.given

====
